---- MODULE Spec2Model ----
(***************************************************************************)
(* CERT coordination observability: the Consistency Engine                 *)
(* (cert/core/behavioral_analysis.py), the Coordination Engine             *)
(* (cert/core/coordination_effects.py) and the HTTP boundary               *)
(* (cert/api/server.py) as a state machine.                                *)
(*                                                                         *)
(* Numbers.  The code computes with Python floats and numpy float64.  The  *)
(* model computes with exact rationals in lowest terms, [k |-> "fin",      *)
(* n |-> numerator, d |-> denominator > 0], plus the two IEEE specials the *)
(* code can produce from finite inputs: nan (np.mean of an empty list,     *)
(* 0/0) and inf (x/0 in numpy).  The inputs are real numbers, as the data  *)
(* model of the specification states; rounding to 53 bits is not modelled, *)
(* except that a square root that is not rational is rounded down to       *)
(* 1/SqrtScale.                                                            *)
(***************************************************************************)
EXTENDS Integers, Sequences, FiniteSets, TLC

\* ------------------------------------------------------------------ bounds
\* Longest response list a single caller submits (specification Spec).
MaxResponses == 5
\* Longest response list under concurrency and at the HTTP boundary.
MaxConcResponses == 3
\* Irrational square roots are rounded down to a multiple of 1/SqrtScale.
SqrtScale == 100

\* ----------------------------------------------------------------- numbers
Abs(x) == IF x < 0 THEN -x ELSE x

RECURSIVE GCD(_, _)
GCD(a, b) == IF b = 0 THEN a ELSE GCD(b, a % b)

\* The rational n/d in lowest terms with a positive denominator.
Fin(n, d) ==
    LET g == GCD(Abs(n), Abs(d))
        s == IF d < 0 THEN -1 ELSE 1
    IN  [k |-> "fin", n |-> s * (n \div g), d |-> s * (d \div g)]

NaN == [k |-> "nan", n |-> 0, d |-> 1]
Inf(s) == [k |-> "inf", n |-> s, d |-> 1]

Zero == Fin(0, 1)
One == Fin(1, 1)

IsZero(x) == x.k = "fin" /\ x.n = 0
Sign(x) == IF x.n > 0 THEN 1 ELSE IF x.n < 0 THEN -1 ELSE 0
Neg(x) == [x EXCEPT !.n = -x.n]

Add(x, y) ==
    IF x.k = "nan" \/ y.k = "nan" THEN NaN
    ELSE IF x.k = "inf" /\ y.k = "inf"
         THEN (IF x.n = y.n THEN x ELSE NaN)
    ELSE IF x.k = "inf" THEN x
    ELSE IF y.k = "inf" THEN y
    ELSE Fin(x.n * y.d + y.n * x.d, x.d * y.d)

Sub(x, y) == Add(x, Neg(y))

Mul(x, y) ==
    IF x.k = "nan" \/ y.k = "nan" THEN NaN
    ELSE IF x.k = "inf" \/ y.k = "inf"
         THEN (IF Sign(x) * Sign(y) = 0 THEN NaN ELSE Inf(Sign(x) * Sign(y)))
    ELSE Fin(x.n * y.n, x.d * y.d)

\* x / y for y # 0.
Quot(x, y) ==
    IF x.k = "nan" \/ y.k = "nan" THEN NaN
    ELSE IF x.k = "inf"
         THEN (IF y.k = "inf" THEN NaN
               ELSE Inf(x.n * (IF Sign(y) < 0 THEN -1 ELSE 1)))
    ELSE IF y.k = "inf" THEN Zero
    ELSE Fin(x.n * y.d, x.d * y.n)

\* numpy float64 division: a zero divisor gives nan or inf, no exception.
NpDiv(x, y) ==
    IF IsZero(y)
    THEN (IF x.k = "nan" \/ IsZero(x) THEN NaN ELSE Inf(Sign(x)))
    ELSE Quot(x, y)

\* x > y, x == y as Python compares floats: every comparison with nan is False.
Gt(x, y) == LET z == Sub(x, y) IN z.k # "nan" /\ z.n > 0
Eq(x, y) == x.k # "nan" /\ y.k # "nan" /\ x = y
Le(x, y) == Gt(y, x) \/ Eq(x, y)

RECURSIVE BSqrt(_, _, _)
BSqrt(m, lo, hi) ==
    IF lo >= hi THEN lo
    ELSE LET mid == (lo + hi + 1) \div 2
         IN  IF mid * mid <= m THEN BSqrt(m, mid, hi) ELSE BSqrt(m, lo, mid - 1)

\* The integer square root, rounded down.
ISqrt(m) == BSqrt(m, 0, IF m < 40000 THEN m ELSE 40000)

IsSquare(m) == ISqrt(m) * ISqrt(m) = m

\* The square root: exact when it is rational, else rounded down to 1/SqrtScale.
Sqrt(x) ==
    IF x.k = "nan" THEN NaN
    ELSE IF x.k = "inf" THEN (IF x.n > 0 THEN x ELSE NaN)
    ELSE IF x.n < 0 THEN NaN
    ELSE IF IsSquare(x.n) /\ IsSquare(x.d) THEN Fin(ISqrt(x.n), ISqrt(x.d))
    ELSE Fin(ISqrt((x.n * SqrtScale * SqrtScale) \div x.d), SqrtScale)

RECURSIVE SumSeq(_)
SumSeq(xs) == IF xs = << >> THEN Zero ELSE Add(xs[1], SumSeq(Tail(xs)))

\* np.mean: the arithmetic mean; nan for an empty list.
Mean(xs) == IF xs = << >> THEN NaN ELSE Quot(SumSeq(xs), Fin(Len(xs), 1))

\* A faulty variant of Std: the sample standard deviation (ddof = 1).
Std_Sample(xs) ==
    LET m == Mean(xs)
        dev == [i \in 1..Len(xs) |-> Mul(Sub(xs[i], m), Sub(xs[i], m))]
    IN  Sqrt(NpDiv(SumSeq(dev), Fin(Len(xs) - 1, 1)))

\* np.std: the population standard deviation sqrt(mean(|x - mean|^2)).
Std(xs) ==
    LET m == Mean(xs)
        dev == [i \in 1..Len(xs) |-> Mul(Sub(xs[i], m), Sub(xs[i], m))]
    IN  Sqrt(Mean(dev))


\* ------------------------------------------------------- embedding provider
DefaultModel == "all-MiniLM-L6-v2"

\* The response texts of the model.
Texts == {"T1", "T2", "T3"}

\* SentenceTransformer.encode of one text: a fixed-dimension vector that depends
\* on the loaded model and the text alone.  The vectors have integer norms, so
\* every cosine is rational, and one of them has a negative component.
Embed(model, text) ==
    IF model = DefaultModel
    THEN (CASE text = "T1" -> << 1, 0 >>
            [] text = "T2" -> << 3, 4 >>
            [] OTHER       -> << -4, 3 >>)
    ELSE << 0, 1 >>

\* self.model.encode(responses): one vector per response, in response order.
Encode(model, responses) ==
    [i \in 1..Len(responses) |-> Embed(model, responses[i])]

Dot(u, v) == u[1] * v[1] + u[2] * v[2]

\* A faulty variant of Cosine: the similarity, not the distance.
Cosine_Similarity(u, v) ==
    NpDiv(Fin(Dot(u, v), 1), Sqrt(Fin(Dot(u, u) * Dot(v, v), 1)))

\* A faulty variant of Cosine: normalised by the first vector alone.
Cosine_ByFirst(u, v) ==
    Sub(One, NpDiv(Fin(Dot(u, v), 1), Sqrt(Fin(Dot(u, u) * Dot(u, u), 1))))

\* scipy.spatial.distance.cosine: 1 - u.v / (|u| |v|).
Cosine(u, v) ==
    Sub(One, NpDiv(Fin(Dot(u, v), 1), Sqrt(Fin(Dot(u, u) * Dot(v, v), 1))))

\* ------------------------------------------------------- consistency engine
InsufficientDataMsg == "Need at least 2 responses for consistency measurement"
EmbeddingErrorMsg == "embedding provider failed"

\* A faulty variant of InsufficientData: the length check is off by one.
InsufficientData_OffByOne(responses) == Len(responses) < 1

\* if len(responses) < 2
InsufficientData(responses) == Len(responses) < 2

\* A faulty variant of ProviderInvocations: the list is encoded a second time.
ProviderInvocations_Twice(responses) == << responses, responses >>

\* The provider invocations one call makes: a single encode of the whole list.
ProviderInvocations(responses) == << responses >>

\* The pairs (i, j), i < j, in the order the nested loops visit them.
RECURSIVE PairsFrom(_, _, _)
PairsFrom(i, j, n) ==
    IF i > n THEN << >>
    ELSE IF j > n THEN PairsFrom(i + 1, i + 2, n)
    ELSE << << i, j >> >> \o PairsFrom(i, j + 1, n)

\* A faulty variant of Pairs: the inner loop starts at i, not at i + 1.
Pairs_WithSelf(n) == PairsFrom(1, 1, n)

\* for i in range(len(embeddings)): for j in range(i + 1, len(embeddings))
Pairs(n) == PairsFrom(1, 2, n)

\* A faulty variant of PairwiseDistances: neighbours in the list only.
PairwiseDistances_Adjacent(embeddings) ==
    [p \in 1..(Len(embeddings) - 1) |-> Cosine(embeddings[p], embeddings[p + 1])]

\* distances: cosine(embeddings[i], embeddings[j]) for i < j.
PairwiseDistances(embeddings) ==
    LET ps == Pairs(Len(embeddings))
    IN  [p \in 1..Len(ps) |-> Cosine(embeddings[ps[p][1]], embeddings[ps[p][2]])]

\* A faulty variant of Max0: the floor at 0 is missing.
Max0_NoFloor(x) == x

\* max(0, x): x when x > 0 is true, else 0 (so 0 for nan).
Max0(x) == IF Gt(x, Zero) THEN x ELSE Zero

\* A faulty variant of PerfectConsistency: the zero-mean case is not singled out.
PerfectConsistency_Missing(mean_distance) == FALSE

\* if mean_distance == 0
PerfectConsistency(mean_distance) == Eq(mean_distance, Zero)

\* A faulty variant of ConsistencyScore: the ratio itself, not its complement.
ConsistencyScore_Ratio(mean_distance, std_distance) ==
    IF PerfectConsistency(mean_distance)
    THEN [score |-> One, divided |-> FALSE]
    ELSE [score |-> Max0(NpDiv(std_distance, mean_distance)), divided |-> TRUE]

\* The score, and whether the division by the mean was executed.
ConsistencyScore(mean_distance, std_distance) ==
    IF PerfectConsistency(mean_distance)
    THEN [score |-> One, divided |-> FALSE]
    ELSE [score |-> Max0(Sub(One, NpDiv(std_distance, mean_distance))),
          divided |-> TRUE]

\* The dictionary measure_consistency returns on success.
ConsistencyResult(args, distances, now) ==
    LET mean_distance == Mean(distances)
        std_distance == Std(distances)
    IN  [agent_id |-> args.agent_id,
         prompt |-> args.prompt,
         consistency_score |-> ConsistencyScore(mean_distance, std_distance).score,
         mean_semantic_distance |-> mean_distance,
         std_semantic_distance |-> std_distance,
         num_responses |-> Len(args.responses),
         timestamp |-> now]

\* A faulty variant of ExceptResult: a result is computed from what was embedded
\* before the failure.
ExceptResult_Partial(message, args, partial, now) ==
    IF Len(partial) >= 2
    THEN ConsistencyResult([args EXCEPT !.responses =
                                SubSeq(args.responses, 1, Len(partial))],
                           PairwiseDistances(partial), now)
    ELSE [error |-> message]

\* except Exception as e: return {"error": str(e)}.  partial is what the
\* provider had embedded when it raised; the handler does not see it.
ExceptResult(message, args, partial, now) == [error |-> message]

\* ------------------------------------------------------ coordination engine
ZeroBaselineMsg == "Cannot calculate coordination effect with zero baseline"
ZeroDivisionMsg == "float division by zero"

\* expected_performance = agent_a_baseline * agent_b_baseline
ExpectedPerformance(a, b) == Mul(a, b)

\* A faulty variant of ZeroBaseline: the zero check is missing.
ZeroBaseline_Missing(expected) == FALSE

\* if expected_performance == 0
ZeroBaseline(expected) == Eq(expected, Zero)

\* A faulty variant of Gamma: the ratio is inverted.
Gamma_Inverted(observed, expected) == Quot(expected, observed)

\* gamma = coordinated_performance / expected_performance
Gamma(observed, expected) == Quot(observed, expected)

\* A faulty variant of Classify: the branch at 1.0 is missing.
Classify_NoNeutral(gamma) ==
    IF Gt(gamma, Fin(12, 10)) THEN "highly_beneficial"
    ELSE IF Gt(gamma, Fin(8, 10)) THEN "beneficial"
    ELSE "severely_degraded"

\* A faulty variant of Classify: the thresholds are closed from above.
Classify_Closed(gamma) ==
    IF Le(Fin(12, 10), gamma) THEN "highly_beneficial"
    ELSE IF Le(Fin(10, 10), gamma) THEN "beneficial"
    ELSE IF Le(Fin(8, 10), gamma) THEN "degraded"
    ELSE "severely_degraded"

\* The if / elif chain over gamma.
Classify(gamma) ==
    IF Gt(gamma, Fin(12, 10)) THEN "highly_beneficial"
    ELSE IF Gt(gamma, Fin(10, 10)) THEN "beneficial"
    ELSE IF Gt(gamma, Fin(8, 10)) THEN "degraded"
    ELSE "severely_degraded"

\* A faulty variant of PercentChange: gamma itself as a percentage.
PercentChange_Ratio(gamma) == Mul(gamma, Fin(100, 1))

\* (gamma - 1) * 100
PercentChange(gamma) == Mul(Sub(gamma, One), Fin(100, 1))

\* A faulty variant of CoordinationResult: an empty label is replaced.
CoordinationResult_Normalised(args, expected, now) ==
    LET gamma == Gamma(args.coordinated_performance, expected)
    IN  [agent_a_baseline |-> args.agent_a_baseline,
         agent_b_baseline |-> args.agent_b_baseline,
         expected_performance |-> expected,
         observed_performance |-> args.coordinated_performance,
         coordination_effect |-> gamma,
         impact_classification |-> Classify(gamma),
         interaction_pattern |-> IF args.interaction_pattern = "" THEN "unknown"
                                 ELSE args.interaction_pattern,
         performance_change_percent |-> PercentChange(gamma),
         timestamp |-> now]

\* The dictionary calculate_coordination_effect returns on success.
CoordinationResult(args, expected, now) ==
    LET gamma == Gamma(args.coordinated_performance, expected)
    IN  [agent_a_baseline |-> args.agent_a_baseline,
         agent_b_baseline |-> args.agent_b_baseline,
         expected_performance |-> expected,
         observed_performance |-> args.coordinated_performance,
         coordination_effect |-> gamma,
         impact_classification |-> Classify(gamma),
         interaction_pattern |-> args.interaction_pattern,
         performance_change_percent |-> PercentChange(gamma),
         timestamp |-> now]


\* except Exception as e: return {"error": str(e)} of the coordination engine.
CoordinationExcept(message) == [error |-> message]

\* -------------------------------------------------------------------- state
VARIABLES
    behavioral_analyzer,    \* server.py: the module-level BehavioralAnalyzer
    coordination_analyzer,  \* server.py: the module-level CoordinationAnalyzer
    calls,                  \* per caller: the engine call it is running
    frame,                  \* per call: the local variables of the engine call
    encode_log,             \* per call: the batches submitted to the provider
    log,                    \* the messages written with logger.error
    http                    \* the HTTP exchange the server is handling

VARIABLES
    agent,                  \* a CERTInstrumentedAgent of the AutoGen integration
    swarm,                  \* a CERTInstrumentedSwarm
    hf,                     \* a HuggingFaceProvider and its generate call
    provider                \* the LLM provider a caller is constructing

vars == << behavioral_analyzer, coordination_analyzer, calls, frame,
           encode_log, log, http, agent, swarm, hf, provider >>

\* The instrumentation wrappers and the LLM providers.
client_vars == << agent, swarm, hf, provider >>

server_vars == << behavioral_analyzer, coordination_analyzer, calls, frame,
                  encode_log, log, http >>

engine_vars == << behavioral_analyzer, coordination_analyzer, calls, frame,
                  encode_log, log >>

\* The threads that call into the shared analyzer instances.
Callers == {"t1", "t2"}

\* The wall clock values np.datetime64('now') may return.
Times == {"12:00:00", "12:00:01"}

NoArgs == [none |-> TRUE]
NoResult == [none |-> TRUE]

IdleCall ==
    [pc |-> "idle", op |-> "none", args |-> NoArgs, result |-> NoResult,
     raised |-> FALSE, divided |-> FALSE]

\* The locals of a call before any of them is assigned.
EmptyFrame == [embeddings |-> << >>, distances |-> << >>, expected |-> Zero]

\* BehavioralAnalyzer.__init__ / CoordinationAnalyzer.__init__
NewBehavioralAnalyzer ==
    [model |-> DefaultModel, logger |-> "cert.core.behavioral_analysis"]
NewCoordinationAnalyzer == [logger |-> "cert.core.coordination_effects"]

IdleHttp ==
    [pc |-> "idle", endpoint |-> "none", body |-> NoArgs, status |-> 0,
     content |-> NoResult]

\* The two CERTInstrumentedAgent classes of the repository.
Variants == {"examples", "integrations"}

NoCall == [none |-> TRUE]

\* CERTInstrumentedAgent.__init__: an empty response_history.  recorded, sent
\* and calls keep, for each stored response, the prompt it answered, the
\* requests handed to the CERT client and the number of generate_reply calls.
NewAgent(variant) ==
    [variant |-> variant, name |-> "Forecaster", response_history |-> << >>,
     recorded |-> << >>, sent |-> << >>, calls |-> 0, last |-> NoCall]

\* The names of the Swarm agents.
AgentNames == {"Forecaster", "Optimizer"}

NoBaseline == [k |-> "unset", n |-> 0, d |-> 1]

\* CERTInstrumentedSwarm.__init__: no history, no baselines, no measurements.
\* produced keeps, for each stored response, the agent that wrote it.
NewSwarm ==
    [agent_response_history |-> [a \in AgentNames |-> << >>],
     agent_baselines |-> [a \in AgentNames |-> NoBaseline],
     handoff_measurements |-> << >>,
     produced |-> [a \in AgentNames |-> << >>],
     runs |-> 0, last |-> NoCall]

NoProvider == [pc |-> "none"]

Init ==
    /\ agent = NewAgent("examples")
    /\ swarm = NewSwarm
    /\ hf = NoProvider
    /\ provider = NoProvider
    /\ behavioral_analyzer = NewBehavioralAnalyzer
    /\ coordination_analyzer = NewCoordinationAnalyzer
    /\ calls = [c \in Callers |-> IdleCall]
    /\ frame = [c \in Callers |-> EmptyFrame]
    /\ encode_log = [c \in Callers |-> << >>]
    /\ log = {}
    /\ http = IdleHttp

\* A faulty variant of FrameOf: the locals are attributes of the shared instance.
FrameOf_Shared(c) == "t1"

\* Where the locals of call c live: in the call's own frame.
FrameOf(c) == c

\* A faulty variant of AnalyzerAfterCall: a call that ends in an error drops the model.
AnalyzerAfterCall_Drop(self, result) ==
    [f \in DOMAIN self |->
        IF f = "model" /\ "error" \in DOMAIN result THEN "unloaded" ELSE self[f]]

\* What a call leaves in the analyzer instance it ran on: nothing is assigned
\* to self in either engine.
AnalyzerAfterCall(self, result) == self

\* ------------------------------------------------------------------ inputs
ResponseLists(T, n) == UNION {[1..m -> T] : m \in 0..n}

ConsistencyRequests(A, T, n) ==
    [agent_id : A, prompt : {"What is the capital of France?"},
     responses : ResponseLists(T, n)]

Hundredths(S) == {Fin(x, 100) : x \in S}

\* The examples of the specification, of tests/test_api_directly.py and of
\* run_mock_coordination_experiment.
ExampleInputs ==
    {[agent_a_baseline |-> Fin(t[1], 100), agent_b_baseline |-> Fin(t[2], 100),
      coordinated_performance |-> Fin(t[3], 100),
      interaction_pattern |-> "sequential"] :
        t \in {<< 85, 80, 88 >>, << 87, 89, 61 >>, << 85, 80, 92 >>,
               << 75, 70, 53 >>, << 80, 90, 75 >>}}

CoordinationRequests ==
    [agent_a_baseline : Hundredths({0, 50, 100}),
     agent_b_baseline : Hundredths({0, 50, 100}),
     coordinated_performance : Hundredths({-100, 40, 50, 60, 90, 110}),
     interaction_pattern : {"", "sequential"}] \cup ExampleInputs

\* ---------------------------------------------- measure_consistency, by step
\* The call up to the provider: the length check and the encode invocation.
MeasureConsistencyCall(c, args) ==
    /\ calls[c].pc = "idle"
    /\ IF InsufficientData(args.responses)
       THEN /\ calls' = [calls EXCEPT ![c] =
                   [IdleCall EXCEPT !.pc = "returned", !.op = "consistency",
                                    !.args = args,
                                    !.result = [error |-> InsufficientDataMsg]]]
            /\ encode_log' = [encode_log EXCEPT ![c] = << >>]
       ELSE /\ calls' = [calls EXCEPT ![c] =
                   [IdleCall EXCEPT !.pc = "encoding", !.op = "consistency",
                                    !.args = args]]
            /\ encode_log' = [encode_log EXCEPT ![c] =
                   ProviderInvocations(args.responses)]
    /\ frame' = [frame EXCEPT ![FrameOf(c)] = EmptyFrame]
    /\ UNCHANGED << behavioral_analyzer, coordination_analyzer, log >>

\* The provider returns: embeddings = self.model.encode(responses).
EncodeReturn(c) ==
    /\ calls[c].pc = "encoding"
    /\ frame' = [frame EXCEPT ![FrameOf(c)].embeddings =
           Encode(behavioral_analyzer.model, calls[c].args.responses)]
    /\ calls' = [calls EXCEPT ![c].pc = "embedded"]
    /\ UNCHANGED << behavioral_analyzer, coordination_analyzer, encode_log, log >>

\* The provider raises after embedding the first k responses: the except
\* clause logs the error and returns it.
EncodeRaise(c) ==
    /\ calls[c].pc = "encoding"
    /\ \E k \in 0..Len(calls[c].args.responses), now \in Times :
         LET partial == Encode(behavioral_analyzer.model,
                               SubSeq(calls[c].args.responses, 1, k))
             result == ExceptResult(EmbeddingErrorMsg, calls[c].args, partial, now)
         IN  /\ calls' = [calls EXCEPT ![c].pc = "returned", ![c].raised = TRUE,
                                       ![c].result = result]
             /\ behavioral_analyzer' =
                    AnalyzerAfterCall(behavioral_analyzer, result)
    /\ log' = log \cup {"Consistency measurement failed: " \o EmbeddingErrorMsg}
    /\ frame' = [frame EXCEPT ![FrameOf(c)] = EmptyFrame]
    /\ UNCHANGED << coordination_analyzer, encode_log >>

\* The nested loops over the embeddings.
ComputeDistances(c) ==
    /\ calls[c].pc = "embedded"
    /\ frame' = [frame EXCEPT ![FrameOf(c)].distances =
           PairwiseDistances(frame[FrameOf(c)].embeddings)]
    /\ calls' = [calls EXCEPT ![c].pc = "measured"]
    /\ UNCHANGED << behavioral_analyzer, coordination_analyzer, encode_log, log >>

\* mean, std, score and the returned dictionary.
ComputeScore(c) ==
    /\ calls[c].pc = "measured"
    /\ \E now \in Times :
       LET distances == frame[FrameOf(c)].distances
           result == ConsistencyResult(calls[c].args, distances, now)
       IN  /\ calls' = [calls EXCEPT
                  ![c].pc = "returned",
                  ![c].result = result,
                  ![c].divided =
                      ConsistencyScore(Mean(distances), Std(distances)).divided]
           /\ behavioral_analyzer' = AnalyzerAfterCall(behavioral_analyzer, result)
    /\ frame' = [frame EXCEPT ![FrameOf(c)] = EmptyFrame]
    /\ UNCHANGED << coordination_analyzer, encode_log, log >>

\* -------------------------------------- calculate_coordination_effect, by step
\* The call up to the zero check.
CalculateCoordinationCall(c, args) ==
    /\ calls[c].pc = "idle"
    /\ LET expected == ExpectedPerformance(args.agent_a_baseline,
                                           args.agent_b_baseline)
       IN  /\ frame' = [frame EXCEPT ![FrameOf(c)] =
                  [EmptyFrame EXCEPT !.expected = expected]]
           /\ IF ZeroBaseline(expected)
              THEN calls' = [calls EXCEPT ![c] =
                       [IdleCall EXCEPT !.pc = "returned", !.op = "coordination",
                                        !.args = args,
                                        !.result = [error |-> ZeroBaselineMsg]]]
              ELSE calls' = [calls EXCEPT ![c] =
                       [IdleCall EXCEPT !.pc = "dividing", !.op = "coordination",
                                        !.args = args]]
    /\ encode_log' = [encode_log EXCEPT ![c] = << >>]
    /\ UNCHANGED << behavioral_analyzer, coordination_analyzer, log >>

\* gamma, the classification and the returned dictionary; a zero divisor
\* raises ZeroDivisionError, which the except clause logs and returns.
ComputeEffect(c) ==
    /\ calls[c].pc = "dividing"
    /\ \E now \in Times :
       LET expected == frame[FrameOf(c)].expected
           raises == IsZero(expected)
           result == IF raises THEN CoordinationExcept(ZeroDivisionMsg)
                     ELSE CoordinationResult(calls[c].args, expected, now)
       IN  /\ calls' = [calls EXCEPT ![c].pc = "returned", ![c].raised = raises,
                                     ![c].result = result]
           /\ coordination_analyzer' =
                  AnalyzerAfterCall(coordination_analyzer, result)
           /\ log' = IF raises
                     THEN log \cup {"Coordination effect calculation failed: "
                                    \o ZeroDivisionMsg}
                     ELSE log
    /\ frame' = [frame EXCEPT ![FrameOf(c)] = EmptyFrame]
    /\ UNCHANGED << behavioral_analyzer, encode_log >>

\* The caller takes the result: the call is over.
Return(c) ==
    /\ calls[c].pc = "returned"
    /\ calls' = [calls EXCEPT ![c] = IdleCall]
    /\ encode_log' = [encode_log EXCEPT ![c] = << >>]
    /\ UNCHANGED << behavioral_analyzer, coordination_analyzer, frame, log >>


\* ------------------------------------------------ specification Spec: one caller
\* One thread calls the two engines, one call after the other, with response
\* lists of up to MaxResponses texts.
Next ==
    \/ /\ \E args \in ConsistencyRequests({"agent_1"}, Texts, MaxResponses) :
             MeasureConsistencyCall("t1", args)
       /\ UNCHANGED << http, client_vars >>
    \/ EncodeReturn("t1") /\ UNCHANGED << http, client_vars >>
    \/ EncodeRaise("t1") /\ UNCHANGED << http, client_vars >>
    \/ ComputeDistances("t1") /\ UNCHANGED << http, client_vars >>
    \/ ComputeScore("t1") /\ UNCHANGED << http, client_vars >>
    \/ /\ \E args \in CoordinationRequests : CalculateCoordinationCall("t1", args)
       /\ UNCHANGED << http, client_vars >>
    \/ ComputeEffect("t1") /\ UNCHANGED << http, client_vars >>
    \/ Return("t1") /\ UNCHANGED << http, client_vars >>

Spec == Init /\ [][Next]_vars

\* ------------------------------------- specification ConcSpec: two callers
ConcTexts == {"T1", "T3"}

ConcCoordinationRequests ==
    ExampleInputs \cup
    [agent_a_baseline : Hundredths({0, 50}), agent_b_baseline : Hundredths({100}),
     coordinated_performance : Hundredths({60}), interaction_pattern : {"parallel"}]

\* The threads of Callers call the two engines on the shared analyzer
\* instances, their steps interleaved in every order.
ConcNext ==
    \/ /\ \E c \in Callers :
             \E args \in ConsistencyRequests({"agent_1"}, ConcTexts,
                                             MaxConcResponses) :
                MeasureConsistencyCall(c, args)
       /\ UNCHANGED << http, client_vars >>
    \/ (\E c \in Callers : EncodeReturn(c)) /\ UNCHANGED << http, client_vars >>
    \/ (\E c \in Callers : EncodeRaise(c)) /\ UNCHANGED << http, client_vars >>
    \/ (\E c \in Callers : ComputeDistances(c)) /\ UNCHANGED << http, client_vars >>
    \/ (\E c \in Callers : ComputeScore(c)) /\ UNCHANGED << http, client_vars >>
    \/ /\ \E c \in Callers :
             \E args \in ConcCoordinationRequests :
                CalculateCoordinationCall(c, args)
       /\ UNCHANGED << http, client_vars >>
    \/ (\E c \in Callers : ComputeEffect(c)) /\ UNCHANGED << http, client_vars >>
    \/ (\E c \in Callers : Return(c)) /\ UNCHANGED << http, client_vars >>

ConcSpec == Init /\ [][ConcNext]_vars

\* ------------------------------------- specification ServerSpec: the HTTP API
\* The handlers are coroutines without an await: the event loop runs each one
\* to its response before it starts the next, on the thread "t1".
Accepting == http.pc \in {"idle", "responded"} /\ calls["t1"].pc = "idle"

ConsistencyBodies ==
    ConsistencyRequests({"agent_1", "agent_2"}, Texts, MaxConcResponses)

\* The bodies of POST /measure/coordination: the six fields the clients of
\* the repository send, and the four numeric and label fields alone.
CoordinationBodies ==
    {[agent_a_id |-> "agent_a", agent_b_id |-> "agent_b",
      agent_a_baseline |-> r.agent_a_baseline,
      agent_b_baseline |-> r.agent_b_baseline,
      coordinated_performance |-> r.coordinated_performance,
      interaction_pattern |-> r.interaction_pattern] : r \in CoordinationRequests}
    \cup CoordinationRequests

\* A faulty variant of RequiredCoordinationFields: the agent ids are optional.
RequiredCoordinationFields_NoIds ==
    {"agent_a_baseline", "agent_b_baseline", "coordinated_performance",
     "interaction_pattern"}

\* class CoordinationRequest(BaseModel): six fields, none with a default.
RequiredCoordinationFields ==
    {"agent_a_id", "agent_b_id", "agent_a_baseline", "agent_b_baseline",
     "coordinated_performance", "interaction_pattern"}

\* The request validation of the framework: a body without a required field
\* is answered 422 and the handler is not called.
MissingFields(body) == RequiredCoordinationFields \ DOMAIN body

ValidationResponse(missing) == [status |-> 422, content |-> [detail |-> missing]]

\* POST /measure/consistency: the handler calls measure_consistency.
PostConsistency(body) ==
    /\ Accepting
    /\ MeasureConsistencyCall("t1",
           [agent_id |-> body.agent_id, prompt |-> body.prompt,
            responses |-> body.responses])
    /\ http' = [IdleHttp EXCEPT !.pc = "handling",
                                !.endpoint = "/measure/consistency",
                                !.body = body]

\* POST /measure/coordination: the body is validated, then the handler calls
\* calculate_coordination_effect.
PostCoordination(body) ==
    /\ Accepting
    /\ IF MissingFields(body) = {}
       THEN /\ CalculateCoordinationCall("t1",
                   [agent_a_baseline |-> body.agent_a_baseline,
                    agent_b_baseline |-> body.agent_b_baseline,
                    coordinated_performance |-> body.coordinated_performance,
                    interaction_pattern |-> body.interaction_pattern])
            /\ http' = [IdleHttp EXCEPT !.pc = "handling",
                                        !.endpoint = "/measure/coordination",
                                        !.body = body]
       ELSE /\ http' = [IdleHttp EXCEPT
                   !.pc = "responded",
                   !.endpoint = "/measure/coordination",
                   !.body = body,
                   !.status = ValidationResponse(MissingFields(body)).status,
                   !.content = ValidationResponse(MissingFields(body)).content]
            /\ UNCHANGED engine_vars

\* The engine call of the handler runs on.
HandlerStep ==
    \/ http.pc = "handling" /\ EncodeReturn("t1") /\ UNCHANGED << http, client_vars >>
    \/ http.pc = "handling" /\ EncodeRaise("t1") /\ UNCHANGED << http, client_vars >>
    \/ http.pc = "handling" /\ ComputeDistances("t1") /\ UNCHANGED << http, client_vars >>
    \/ http.pc = "handling" /\ ComputeScore("t1") /\ UNCHANGED << http, client_vars >>
    \/ http.pc = "handling" /\ ComputeEffect("t1") /\ UNCHANGED << http, client_vars >>

\* A faulty variant of HandlerResponse: the error check is missing.
HandlerResponse_NoCheck(result) == [status |-> 200, content |-> result]

\* if "error" in result: raise HTTPException(400, detail=result["error"]);
\* return result.
HandlerResponse(result) ==
    IF "error" \in DOMAIN result
    THEN [status |-> 400, content |-> [detail |-> result.error]]
    ELSE [status |-> 200, content |-> result]

Respond ==
    /\ http.pc = "handling"
    /\ Return("t1")
    /\ LET r == HandlerResponse(calls["t1"].result)
       IN  http' = [http EXCEPT !.pc = "responded", !.status = r.status,
                                !.content = r.content]

\* GET /health
HealthResponse ==
    [status |-> 200, content |-> [status |-> "healthy", version |-> "0.1.0"]]

HealthCheck ==
    /\ Accepting
    /\ http' = [IdleHttp EXCEPT !.pc = "responded", !.endpoint = "/health",
                                !.status = HealthResponse.status,
                                !.content = HealthResponse.content]
    /\ UNCHANGED engine_vars

ServerNext ==
    \/ (\E body \in ConsistencyBodies : PostConsistency(body))
       /\ UNCHANGED client_vars
    \/ (\E body \in CoordinationBodies : PostCoordination(body))
       /\ UNCHANGED client_vars
    \/ HandlerStep
    \/ Respond /\ UNCHANGED client_vars
    \/ HealthCheck /\ UNCHANGED client_vars

ServerSpec == Init /\ [][ServerNext]_vars


\* ------------------------------------------------------------ CERT client
MaxReplies == 4

\* The state of the server and the engines before any request.
IdleServer ==
    /\ behavioral_analyzer = NewBehavioralAnalyzer
    /\ coordination_analyzer = NewCoordinationAnalyzer
    /\ calls = [c \in Callers |-> IdleCall]
    /\ frame = [c \in Callers |-> EmptyFrame]
    /\ encode_log = [c \in Callers |-> << >>]
    /\ log = {}
    /\ http = IdleHttp

\* The reply of an agent that is not a string (None).
None == "None"
IsStr(reply) == reply # None

ConnectionErrorMsg == "connection refused"
ValidationDetail == "value is not a valid string"

\* What the server answers to POST /measure/consistency: 422 for a body with
\* a response that is not a string, else the handler's content.
ConsistencyAnswers(body) ==
    IF \E i \in 1..Len(body.responses) : ~IsStr(body.responses[i])
    THEN {[detail |-> ValidationDetail]}
    ELSE IF InsufficientData(body.responses)
    THEN {HandlerResponse([error |-> InsufficientDataMsg]).content}
    ELSE {HandlerResponse(ConsistencyResult(body,
              PairwiseDistances(Encode(DefaultModel, body.responses)),
              "12:00:00")).content,
          HandlerResponse([error |-> EmbeddingErrorMsg]).content}

\* A faulty variant of ClientResult: the exception of requests escapes.
ClientResult_Uncaught(answers) == answers \cup {[raised |-> ConnectionErrorMsg]}

\* CERTClient.measure_consistency / measure_coordination: response.json(), or
\* {"error": str(e)} for any exception of the request.
ClientResult(answers) == answers \cup {[error |-> ConnectionErrorMsg]}

\* ------------------------------------------------- AutoGen instrumentation
\* The messages of a generate_reply call, by their contents.
Messages == {<< >>, << "P1" >>, << "P1", "P2" >>}

\* The replies super().generate_reply may return.
Replies == {"T1", "T2", None}

\* prompt = messages[-1]["content"] if messages else ""
Prompt(messages) == IF messages = << >> THEN "" ELSE messages[Len(messages)]

\* self.response_history[-3:]
Recent(history) ==
    IF Len(history) <= 3 THEN history
    ELSE SubSeq(history, Len(history) - 2, Len(history))

\* A faulty variant of EnoughResponses: measured from the second response on.
EnoughResponses_Two(history) == Len(history) >= 2

\* if len(self.response_history) >= 3
EnoughResponses(history) == Len(history) >= 3

\* Whether the call stores the reply: examples/autogen_integration.py stores
\* strings only, cert/integrations/autogen_wraper.py stores every reply.
Stores(variant, reply) == variant = "integrations" \/ IsStr(reply)

\* Whether the call gets past the lines that read the measurement:
\* autogen_wraper.py indexes consistency['consistency_score'] unguarded.
ReadsResult(variant, consistency) ==
    /\ "raised" \notin DOMAIN consistency
    /\ variant = "integrations" => "consistency_score" \in DOMAIN consistency

\* CERTInstrumentedAgent.generate_reply
GenerateReply(messages, reply) ==
    /\ agent.calls < MaxReplies
    /\ LET prompt == Prompt(messages)
           history == IF Stores(agent.variant, reply)
                      THEN Append(agent.response_history, reply)
                      ELSE agent.response_history
           recorded == IF Stores(agent.variant, reply)
                       THEN Append(agent.recorded, prompt)
                       ELSE agent.recorded
           measures == Stores(agent.variant, reply) /\ EnoughResponses(history)
           body == [agent_id |-> agent.name, prompt |-> prompt,
                    responses |-> Recent(history)]
       IN  \E consistency \in
                 IF measures THEN ClientResult(ConsistencyAnswers(body))
                 ELSE {NoCall} :
             agent' = [agent EXCEPT
                 !.response_history = history,
                 !.recorded = recorded,
                 !.calls = agent.calls + 1,
                 !.sent = IF measures
                          THEN Append(agent.sent,
                                      [call |-> agent.calls + 1, body |-> body,
                                       prompts |-> Recent(recorded)])
                          ELSE agent.sent,
                 !.last = [reply |-> reply,
                           measured |-> measures,
                           consistency |-> consistency,
                           raised |-> measures
                               /\ ~ReadsResult(agent.variant, consistency),
                           returned |-> IF measures
                               /\ ~ReadsResult(agent.variant, consistency)
                               THEN NoCall ELSE [value |-> reply]]]
    /\ UNCHANGED << server_vars, swarm, hf, provider >>

AutoGenInit ==
    /\ IdleServer
    /\ agent \in {NewAgent(v) : v \in Variants}
    /\ swarm = NewSwarm
    /\ hf = NoProvider
    /\ provider = NoProvider

AutoGenNext ==
    \E messages \in Messages, reply \in Replies : GenerateReply(messages, reply)

AutoGenSpec == AutoGenInit /\ [][AutoGenNext]_vars


\* --------------------------------------------------- Swarm instrumentation
MaxRuns == 3

\* self.agent_baselines.get(name, 0.8)
BaselineOf(baselines, name) ==
    IF baselines[name] = NoBaseline THEN Fin(8, 10) ELSE baselines[name]

\* _estimate_handoff_quality
EstimateHandoffQuality == Fin(75, 100)

\* f"{from_agent.name}_to_{to_agent.name}_handoff"
HandoffPattern(from, to) == from \o "_to_" \o to \o "_handoff"

\* What the server answers to POST /measure/coordination.
CoordinationAnswers(body) ==
    IF MissingFields(body) # {}
    THEN {ValidationResponse(MissingFields(body)).content}
    ELSE LET expected == ExpectedPerformance(body.agent_a_baseline,
                                             body.agent_b_baseline)
         IN  IF ZeroBaseline(expected)
             THEN {HandlerResponse([error |-> ZeroBaselineMsg]).content}
             ELSE {HandlerResponse(
                       CoordinationResult(body, expected, "12:00:00")).content}

\* The results super().run may return: the messages it produced, the last of
\* them written by the agent that is active at the end, and that agent.
RunResults ==
    {[messages |-> << >>, agent |-> a] : a \in AgentNames}
    \cup {[messages |-> << [content |-> "T1", sender |-> a] >>, agent |-> a] :
              a \in AgentNames}

\* if hasattr(result, 'agent') and result.agent != initial_agent
HandedOff(initial_agent, result) == result.agent # initial_agent

\* A faulty variant of KeepsMeasurement: every answer is kept.
KeepsMeasurement_All(coordination) == TRUE

\* if "coordination_effect" in coordination
KeepsMeasurement(coordination) == "coordination_effect" \in DOMAIN coordination

\* CERTInstrumentedSwarm.run, with _measure_agent_consistency and
\* _measure_handoff_coordination.
Run(initial_agent, messages, result) ==
    /\ swarm.runs < MaxRuns
    /\ LET stores == result.messages # << >>
           latest == result.messages[Len(result.messages)]
           history == IF stores
                      THEN Append(swarm.agent_response_history[initial_agent],
                                  latest.content)
                      ELSE swarm.agent_response_history[initial_agent]
           produced == IF stores
                       THEN Append(swarm.produced[initial_agent], latest.sender)
                       ELSE swarm.produced[initial_agent]
           measures == stores /\ EnoughResponses(history)
           request == [agent_id |-> initial_agent, prompt |-> Prompt(messages),
                       responses |-> Recent(history)]
           handoff == HandedOff(initial_agent, result)
           body == [agent_a_id |-> "agent_a", agent_b_id |-> "agent_b",
                    agent_a_baseline |->
                        BaselineOf(swarm.agent_baselines, initial_agent),
                    agent_b_baseline |->
                        BaselineOf(swarm.agent_baselines, result.agent),
                    coordinated_performance |-> EstimateHandoffQuality,
                    interaction_pattern |->
                        HandoffPattern(initial_agent, result.agent)]
       IN  \E consistency \in
                 IF measures THEN ClientResult(ConsistencyAnswers(request))
                 ELSE {NoCall} :
           \E coordination \in
                 IF handoff THEN ClientResult(CoordinationAnswers(body))
                 ELSE {NoCall} :
             swarm' = [swarm EXCEPT
                 !.agent_response_history[initial_agent] = history,
                 !.produced[initial_agent] = produced,
                 !.handoff_measurements =
                     IF handoff /\ KeepsMeasurement(coordination)
                     THEN Append(swarm.handoff_measurements, coordination)
                     ELSE swarm.handoff_measurements,
                 !.runs = swarm.runs + 1,
                 !.last = [initial_agent |-> initial_agent,
                           agent |-> result.agent,
                           request |-> IF measures THEN request ELSE NoCall,
                           producers |-> IF measures THEN Recent(produced)
                                         ELSE << >>,
                           coordination |-> coordination]]
    /\ UNCHANGED << server_vars, agent, hf, provider >>

\* The baselines a caller sets.
Baselines == {Zero, Fin(87, 100)}

\* set_agent_baseline
SetAgentBaseline(agent_name, baseline) ==
    /\ swarm.runs < MaxRuns
    /\ swarm' = [swarm EXCEPT !.agent_baselines[agent_name] = baseline]
    /\ UNCHANGED << server_vars, agent, hf, provider >>

SwarmNext ==
    \/ \E initial_agent \in AgentNames, result \in RunResults :
           Run(initial_agent, << "P1" >>, result)
    \/ \E agent_name \in AgentNames, baseline \in Baselines :
           SetAgentBaseline(agent_name, baseline)

SwarmSpec == Init /\ [][SwarmNext]_vars


\* ------------------------------------------------------ HuggingFaceProvider
MaxGenerateCalls == 2
MaxLogged == 103

\* self.max_retries = 3; self.retry_delay = 2.0; the history kept is 100 long.
MaxRetries == 3
RetryDelay == 2
HistoryLimit == 100

\* How the inference endpoint behaves: "any" answers each request as it
\* likes, the others answer every request the same way.
Scripts == {"ok", "loading", "missing"}

\* The outcomes of one session.post: a response with a status (and, for 200,
\* a body that yields text or not), a timeout, or a network error.
Answer(status, body) == [kind |-> "response", status |-> status, body |-> body]
TimedOut == [kind |-> "timeout", status |-> 0, body |-> "none"]
NetworkError == [kind |-> "network", status |-> 0, body |-> "none"]

AllOutcomes ==
    {Answer(200, "text"), Answer(200, "unusable"), Answer(503, "none"),
     Answer(429, "none"), Answer(400, "none"), Answer(404, "none"),
     TimedOut, NetworkError}

OutcomesOf(server) ==
    CASE server = "ok" -> {Answer(200, "text")}
      [] server = "loading" -> {Answer(503, "none")}
      [] server = "missing" -> {Answer(404, "none")}
      [] OTHER -> AllOutcomes

NoException == "none"

\* HuggingFaceProvider.__init__ with a key, and no generate call running.
\* logged counts the _log_request calls; requests and sleeps keep the requests
\* sent and the delays slept in the current generate call.
NewHuggingFace(server) ==
    [pc |-> "idle", api_key |-> "hf_key",
     model_name |-> "microsoft/DialoGPT-medium",
     max_retries |-> MaxRetries, retry_delay |-> RetryDelay,
     request_history |-> << >>, logged |-> 0, server |-> server, calls |-> 0,
     attempt |-> 0, last_exception |-> NoException,
     requests |-> << >>, sleeps |-> << >>, result |-> NoCall]

\* A faulty variant of KeepRecent: the oldest entries are kept.
KeepRecent_Oldest(history) ==
    IF Len(history) > HistoryLimit THEN SubSeq(history, 1, HistoryLimit)
    ELSE history

\* if len(self.request_history) > 100: keep self.request_history[-100:]
KeepRecent(history) ==
    IF Len(history) > HistoryLimit
    THEN SubSeq(history, Len(history) - HistoryLimit + 1, Len(history))
    ELSE history

\* _log_request: the timestamp of an entry is the number of the request.
LogRequest(history, model, status_code, attempt, number) ==
    KeepRecent(Append(history,
        [timestamp |-> number, model |-> model, status_code |-> status_code,
         attempt |-> attempt, success |-> status_code = 200]))

\* The exception an attempt ends with, "none" when it returns the text.
\* Every raise of the loop body sits inside the try block.
ExceptionOf(outcome, attempt, max_retries) ==
    CASE outcome.kind = "timeout" -> "Request timeout"
      [] outcome.kind = "network" -> "Network error"
      [] outcome.status = 200 ->
            (IF outcome.body = "text" THEN NoException
             ELSE "Failed to extract text from response")
      [] outcome.status = 503 ->
            (IF attempt < max_retries - 1 THEN "retry"
             ELSE "Model still loading")
      [] outcome.status = 429 ->
            (IF attempt < max_retries - 1 THEN "retry" ELSE "Rate limited")
      [] outcome.status = 400 -> "Bad request"
      [] outcome.status = 404 -> "Model not found or access denied"
      [] OTHER -> "HuggingFace API error"

RECURSIVE Pow2(_)
Pow2(n) == IF n = 0 THEN 1 ELSE 2 * Pow2(n - 1)

\* The delay slept after an attempt that is retried.
DelayOf(outcome, attempt, retry_delay) ==
    IF outcome.kind = "response" /\ outcome.status = 503
    THEN retry_delay * (attempt + 1)
    ELSE IF outcome.kind = "response" /\ outcome.status = 429
    THEN retry_delay * Pow2(attempt)
    ELSE retry_delay

\* except asyncio.TimeoutError / aiohttp.ClientError / Exception: every
\* exception raised inside the try block is caught.
Caught(exception) == TRUE

\* generate, up to the loop.
Generate ==
    /\ hf.pc \in {"idle", "returned", "raised"}
    /\ IF hf.server = "any" THEN hf.calls < MaxGenerateCalls
       ELSE hf.logged < MaxLogged
    /\ hf' = [hf EXCEPT !.pc = "sending", !.calls = hf.calls + 1,
                        !.attempt = 0, !.last_exception = NoException,
                        !.requests = << >>, !.sleeps = << >>,
                        !.result = NoCall]
    /\ UNCHANGED << server_vars, agent, swarm, provider >>

\* One turn of the loop: the request, its outcome, and what follows it.
Attempt(outcome) ==
    /\ hf.pc = "sending"
    /\ outcome \in OutcomesOf(hf.server)
    /\ LET attempt == hf.attempt
           answered == outcome.kind = "response"
           history == IF answered
                      THEN LogRequest(hf.request_history, hf.model_name,
                                      outcome.status, attempt + 1, hf.logged + 1)
                      ELSE hf.request_history
           exception == ExceptionOf(outcome, attempt, hf.max_retries)
           logged == [hf EXCEPT
               !.request_history = history,
               !.logged = IF answered THEN hf.logged + 1 ELSE hf.logged,
               !.requests = Append(hf.requests, outcome)]
       IN  IF exception = NoException
           THEN hf' = [logged EXCEPT !.pc = "returned",
                                     !.result = [text |-> outcome.body]]
           ELSE IF ~Caught(exception)
           THEN hf' = [logged EXCEPT !.pc = "raised",
                                     !.result = [raised |-> exception]]
           ELSE IF attempt < hf.max_retries - 1
           THEN hf' = [logged EXCEPT
                    !.attempt = attempt + 1,
                    !.last_exception = IF exception = "retry"
                                       THEN hf.last_exception ELSE exception,
                    !.sleeps = Append(hf.sleeps,
                                      DelayOf(outcome, attempt, hf.retry_delay))]
           ELSE hf' = [logged EXCEPT
                    !.pc = "raised", !.attempt = attempt + 1,
                    !.last_exception = exception,
                    !.result = [raised |-> exception]]
    /\ UNCHANGED << server_vars, agent, swarm, provider >>

RetryInit ==
    /\ IdleServer
    /\ agent = NewAgent("examples")
    /\ swarm = NewSwarm
    /\ hf = NewHuggingFace("any")
    /\ provider = NoProvider

HistoryInit ==
    /\ IdleServer
    /\ agent = NewAgent("examples")
    /\ swarm = NewSwarm
    /\ hf \in {NewHuggingFace(server) : server \in Scripts}
    /\ provider = NoProvider

ProviderNext ==
    \/ Generate
    \/ \E outcome \in AllOutcomes : Attempt(outcome)

RetrySpec == RetryInit /\ [][ProviderNext]_vars

HistorySpec == HistoryInit /\ [][ProviderNext]_vars


\* ------------------------------------------------- provider construction
\* bool(x) of an optional string.
Truthy(x) == x \notin {None, ""}

\* a or b
OrElse(a, b) == IF Truthy(a) THEN a ELSE b

\* A faulty variant of KeyMissing: only an absent key is refused.
KeyMissing_NoneOnly(api_key) == api_key = None

\* if not self.api_key
KeyMissing(api_key) == ~Truthy(api_key)

\* The api_key arguments and the values of the environment variable.
KeyArguments == {None, "", "key"}
KeyEnvironment == {None, "", "env_key"}

\* The ways a caller constructs a provider.
Constructors ==
    {<< "claude", "ClaudeProvider" >>,
     << "huggingface", "HuggingFaceProvider" >>,
     << "huggingface", "create_deepseek_provider" >>,
     << "huggingface", "create_llama_provider" >>,
     << "huggingface", "create_mistral_provider" >>,
     << "huggingface", "create_custom_provider" >>}

\* The model variants a caller names.
ModelVariants == {"7b-chat", "6.7b-instruct", "13b", "nemo", "other"}

\* The model_name argument a constructor passes on: the entry of its
\* model_map, the default entry for a variant it does not know.
ModelArgument(constructor, variant) ==
    CASE constructor = "create_deepseek_provider" ->
            (IF variant = "6.7b-instruct"
             THEN "deepseek-ai/deepseek-coder-6.7b-instruct"
             ELSE "deepseek-ai/deepseek-llm-7b-chat")
      [] constructor = "create_llama_provider" ->
            (IF variant = "13b" THEN "meta-llama/Llama-2-13b-chat-hf"
             ELSE "meta-llama/Llama-2-7b-chat-hf")
      [] constructor = "create_mistral_provider" ->
            (IF variant = "nemo" THEN "mistralai/Mistral-Nemo-Instruct-2407"
             ELSE "mistralai/Mistral-7B-Instruct-v0.2")
      [] constructor = "create_custom_provider" -> variant
      [] OTHER -> None

\* model_name or os.getenv('HUGGINGFACE_MODEL', 'microsoft/DialoGPT-medium')
ModelName(kind, argument) ==
    IF kind = "claude" THEN None
    ELSE OrElse(argument, "microsoft/DialoGPT-medium")

\* ClaudeProvider.__init__ / HuggingFaceProvider.__init__, directly or
\* through a create_*_provider classmethod.
Construct(kind, constructor, api_key, environment, variant) ==
    /\ LET key == OrElse(api_key, environment)
       IN  provider' =
               [pc |-> IF KeyMissing(key) THEN "raised" ELSE "constructed",
                kind |-> kind, constructor |-> constructor,
                given |-> [api_key |-> api_key, environment |-> environment],
                api_key |-> key,
                model_name |-> ModelName(kind, ModelArgument(constructor, variant)),
                info |-> NoCall]
    /\ UNCHANGED << server_vars, agent, swarm, hf >>

\* get_provider_info
ProviderInfo(p) ==
    IF p.kind = "claude"
    THEN [provider |-> "claude", api_key_configured |-> Truthy(p.api_key),
          current_model |-> None]
    ELSE [provider |-> "huggingface", api_key_configured |-> Truthy(p.api_key),
          current_model |-> p.model_name]

GetProviderInfo ==
    /\ provider.pc = "constructed"
    /\ provider' = [provider EXCEPT !.info = ProviderInfo(provider)]
    /\ UNCHANGED << server_vars, agent, swarm, hf >>

\* set_model
SetModel(model_name) ==
    /\ provider.pc = "constructed"
    /\ provider.kind = "huggingface"
    /\ provider' = [provider EXCEPT !.model_name = model_name]
    /\ UNCHANGED << server_vars, agent, swarm, hf >>

ConstructionNext ==
    \/ \E k \in Constructors, api_key \in KeyArguments,
          environment \in KeyEnvironment, variant \in ModelVariants :
           Construct(k[1], k[2], api_key, environment, variant)
    \/ GetProviderInfo
    \/ \E model_name \in {"microsoft/phi-2", "google/gemma-7b-it"} :
           SetModel(model_name)

ConstructionSpec == Init /\ [][ConstructionNext]_vars


\* ------------------------------------------------------------------ claims
Returned(c) == calls[c].pc = "returned"
IsConsistency(c) == calls[c].op = "consistency"
IsCoordination(c) == calls[c].op = "coordination"
Succeeded(c) == Returned(c) /\ "error" \notin DOMAIN calls[c].result

\* A result without its timestamp.
Untimed(r) == [f \in DOMAIN r \ {"timestamp"} |-> r[f]]

\* C1: a measure_consistency call with fewer than 2 responses ends at once with
\* the insufficient-data error as its whole result, and the embedding provider
\* is not invoked in it.
C1_InsufficientData ==
    \A c \in Callers :
        (IsConsistency(c) /\ Len(calls[c].args.responses) < 2) =>
            /\ Returned(c)
            /\ calls[c].result = [error |-> InsufficientDataMsg]
            /\ encode_log[c] = << >>

C1_Witness ==
    \E c \in Callers :
        /\ IsConsistency(c) /\ Returned(c)
        /\ Len(calls[c].args.responses) = 1
        /\ calls[c].result = [error |-> InsufficientDataMsg]

\* C2: the consistency_score of every successful measure_consistency call is
\* a number in [0, 1], and it is 0 whenever std_distance > mean_distance.
C2_ScoreInUnitInterval ==
    \A c \in Callers :
        (IsConsistency(c) /\ Succeeded(c)) =>
            LET r == calls[c].result
                score == r.consistency_score
            IN  /\ score.k = "fin"
                /\ 0 <= score.n /\ score.n <= score.d
                /\ Gt(r.std_semantic_distance, r.mean_semantic_distance) =>
                       score = Zero

C2_Witness ==
    \E c \in Callers :
        /\ IsConsistency(c) /\ Succeeded(c)
        /\ Gt(calls[c].result.std_semantic_distance,
              calls[c].result.mean_semantic_distance)
        /\ calls[c].result.consistency_score = Zero

\* C3: every returned classification is one of the four, chosen from gamma by
\* the threshold table: gamma > 1.2 highly_beneficial, 1.0 < gamma <= 1.2
\* beneficial, 0.8 < gamma <= 1.0 degraded, gamma <= 0.8 severely_degraded.
C3_Classification ==
    \A c \in Callers :
        (IsCoordination(c) /\ Succeeded(c)) =>
            LET g == calls[c].result.coordination_effect
                cls == calls[c].result.impact_classification
            IN  /\ g.k = "fin"
                /\ (5 * g.n > 6 * g.d) => cls = "highly_beneficial"
                /\ (g.n > g.d /\ 5 * g.n <= 6 * g.d) => cls = "beneficial"
                /\ (5 * g.n > 4 * g.d /\ g.n <= g.d) => cls = "degraded"
                /\ (5 * g.n <= 4 * g.d) => cls = "severely_degraded"

C3_Witness ==
    \E c \in Callers :
        /\ IsCoordination(c) /\ Succeeded(c)
        /\ calls[c].result.coordination_effect = Fin(12, 10)
        /\ calls[c].result.impact_classification = "beneficial"

\* C4: a calculate_coordination_effect call with a zero baseline ends at once
\* with the zero-baseline error as its whole result, whatever the observed
\* performance and the interaction pattern.
C4_ZeroBaseline ==
    \A c \in Callers :
        (/\ IsCoordination(c)
         /\ \/ calls[c].args.agent_a_baseline = Zero
            \/ calls[c].args.agent_b_baseline = Zero) =>
            /\ Returned(c)
            /\ calls[c].result = [error |-> ZeroBaselineMsg]

C4_Witness ==
    \E c \in Callers :
        /\ IsCoordination(c) /\ Returned(c)
        /\ calls[c].args.agent_a_baseline # Zero
        /\ calls[c].args.agent_b_baseline = Zero
        /\ calls[c].args.coordinated_performance # Zero
        /\ calls[c].result = [error |-> ZeroBaselineMsg]

\* C5: with a non-zero product of the baselines the call succeeds, and its
\* result has expected_performance = a * b, observed_performance = the
\* coordinated performance, and coordination_effect * (a * b) = observed.
C5_Ratio ==
    \A c \in Callers :
        (/\ IsCoordination(c) /\ Returned(c)
         /\ calls[c].args.agent_a_baseline.n * calls[c].args.agent_b_baseline.n # 0)
        =>  LET a == calls[c].args.agent_a_baseline
                b == calls[c].args.agent_b_baseline
                r == calls[c].result
                product == Fin(a.n * b.n, a.d * b.d)
            IN  /\ "error" \notin DOMAIN r
                /\ r.expected_performance = product
                /\ r.observed_performance = calls[c].args.coordinated_performance
                /\ Mul(r.coordination_effect, product) =
                       calls[c].args.coordinated_performance

C5_Witness ==
    \E c \in Callers :
        /\ IsCoordination(c) /\ Succeeded(c)
        /\ calls[c].args.agent_a_baseline = Fin(87, 100)
        /\ calls[c].args.agent_b_baseline = Fin(89, 100)
        /\ calls[c].result.expected_performance = Fin(7743, 10000)
        /\ calls[c].result.coordination_effect = Fin(6100, 7743)

\* The embeddings of the responses of call c are all the same vector.
IdenticalEmbeddings(c) ==
    \A i, j \in 1..Len(calls[c].args.responses) :
        Embed(DefaultModel, calls[c].args.responses[i]) =
        Embed(DefaultModel, calls[c].args.responses[j])

\* C6: a successful call whose responses all embed identically returns
\* consistency_score exactly 1.0 with mean_distance 0, and the division by
\* the mean is not executed.
C6_IdenticalEmbeddings ==
    \A c \in Callers :
        (IsConsistency(c) /\ Succeeded(c) /\ IdenticalEmbeddings(c)) =>
            /\ calls[c].result.mean_semantic_distance = Zero
            /\ calls[c].result.consistency_score = One
            /\ ~calls[c].divided

C6_Witness ==
    \E c \in Callers :
        /\ IsConsistency(c) /\ Succeeded(c) /\ IdenticalEmbeddings(c)
        /\ Len(calls[c].args.responses) = 3
        /\ calls[c].result.consistency_score = One

\* C7: when the embedding provider fails in a measure_consistency call, the
\* call ends and its result holds the error and nothing else.
C7_ProviderFailure ==
    \A c \in Callers :
        (IsConsistency(c) /\ calls[c].raised) =>
            /\ Returned(c)
            /\ DOMAIN calls[c].result = {"error"}

C7_Witness ==
    \E c \in Callers :
        /\ IsConsistency(c) /\ calls[c].raised /\ Returned(c)
        /\ Len(calls[c].args.responses) >= 3
        /\ calls[c].result = [error |-> EmbeddingErrorMsg]

RECURSIVE Flatten(_)
Flatten(batches) ==
    IF batches = << >> THEN << >> ELSE batches[1] \o Flatten(Tail(batches))

\* C8: within one call the responses handed to the provider are none, or each
\* response once in response order; they are each response once when the call
\* succeeds and still so after a provider failure (no second invocation).
C8_OneInvocation ==
    \A c \in Callers :
        IsConsistency(c) =>
            /\ Len(encode_log[c]) <= 1
            /\ Flatten(encode_log[c]) \in {<< >>, calls[c].args.responses}
            /\ (Succeeded(c) \/ calls[c].raised) =>
                   /\ Len(encode_log[c]) = 1
                   /\ Flatten(encode_log[c]) = calls[c].args.responses

C8_Witness ==
    \E c \in Callers :
        /\ IsConsistency(c) /\ calls[c].raised /\ Returned(c)
        /\ encode_log[c] = << calls[c].args.responses >>

\* The responses a fresh server can give to a request (timestamp aside).
FreshResponses(endpoint, body) ==
    IF endpoint = "/health" THEN {HealthResponse}
    ELSE IF endpoint = "/measure/consistency"
    THEN (IF Len(body.responses) < 2
          THEN {[status |-> 400, content |-> [detail |-> InsufficientDataMsg]]}
          ELSE {[status |-> 400, content |-> [detail |-> EmbeddingErrorMsg]],
                [status |-> 200,
                 content |-> Untimed(ConsistencyResult(body,
                     PairwiseDistances(Encode(DefaultModel, body.responses)),
                     "none"))]})
    ELSE (IF MissingFields(body) # {}
          THEN {ValidationResponse(MissingFields(body))}
          ELSE IF body.agent_a_baseline = Zero \/ body.agent_b_baseline = Zero
          THEN {[status |-> 400, content |-> [detail |-> ZeroBaselineMsg]]}
          ELSE {[status |-> 200,
                 content |-> Untimed(CoordinationResult(body,
                     Mul(body.agent_a_baseline, body.agent_b_baseline),
                     "none"))]})

\* C9: whatever calls came before, the analyzer instances are as constructed
\* and every response is one a fresh server gives to the same request
\* (timestamp aside); /health answers 200 with status healthy.
C9_NoStateLeftBehind ==
    /\ behavioral_analyzer = NewBehavioralAnalyzer
    /\ coordination_analyzer = NewCoordinationAnalyzer
    /\ http.pc = "responded" =>
           /\ [status |-> http.status, content |-> Untimed(http.content)]
                  \in FreshResponses(http.endpoint, http.body)
           /\ http.endpoint = "/health" =>
                  /\ http.status = 200
                  /\ http.content.status = "healthy"

C9_Witness ==
    /\ http.pc = "responded"
    /\ http.endpoint = "/measure/consistency"
    /\ http.status = 200
    /\ "Consistency measurement failed: " \o EmbeddingErrorMsg \in log

\* The result call c returns when it runs alone (timestamp aside).
AloneResult(c) ==
    LET args == calls[c].args
    IN  IF IsConsistency(c)
        THEN (IF Len(args.responses) < 2 THEN [error |-> InsufficientDataMsg]
              ELSE IF calls[c].raised THEN [error |-> EmbeddingErrorMsg]
              ELSE Untimed(ConsistencyResult(args,
                       PairwiseDistances(Encode(DefaultModel, args.responses)),
                       "none")))
        ELSE (IF args.agent_a_baseline = Zero \/ args.agent_b_baseline = Zero
              THEN [error |-> ZeroBaselineMsg]
              ELSE Untimed(CoordinationResult(args,
                       Mul(args.agent_a_baseline, args.agent_b_baseline),
                       "none")))

\* C10: in every interleaving of the callers' steps, a call returns the result
\* it returns when it runs alone (timestamp aside).
C10_Reentrant ==
    \A c \in Callers : Returned(c) => Untimed(calls[c].result) = AloneResult(c)

C10_Witness ==
    /\ IsConsistency("t1") /\ Succeeded("t1")
    /\ IsConsistency("t2") /\ calls["t2"].pc = "measured"
    /\ calls["t1"].args.responses # calls["t2"].args.responses
    /\ Len(calls["t1"].args.responses) = 3


ConsistencyFields ==
    {"agent_id", "prompt", "consistency_score", "mean_semantic_distance",
     "std_semantic_distance", "num_responses", "timestamp"}

\* C11: the response to POST /measure/consistency has status 400 when the
\* request carries fewer than 2 responses, and status 200 with a
\* ConsistencyResult when it carries at least 2 and the provider did not fail;
\* a 200 response carries no error and a 400 response no consistency_score.
C11_ConsistencyStatus ==
    [][(/\ http.pc = "handling" /\ http'.pc = "responded"
        /\ http.endpoint = "/measure/consistency")
       => /\ Len(http.body.responses) < 2 => http'.status = 400
          /\ (Len(http.body.responses) >= 2 /\ ~calls["t1"].raised) =>
                 /\ http'.status = 200
                 /\ DOMAIN http'.content = ConsistencyFields
                 /\ http'.content.num_responses = Len(http.body.responses)
          /\ http'.status \in {200, 400}
          /\ http'.status = 200 => "error" \notin DOMAIN http'.content
          /\ http'.status = 400 =>
                 "consistency_score" \notin DOMAIN http'.content]_vars

C11_Witness ==
    /\ http.pc = "responded" /\ http.endpoint = "/measure/consistency"
    /\ Len(http.body.responses) = 3
    /\ http.status = 200
    /\ "consistency_score" \in DOMAIN http.content


FourFields ==
    {"agent_a_baseline", "agent_b_baseline", "coordinated_performance",
     "interaction_pattern"}

CoordinationFields ==
    {"agent_a_baseline", "agent_b_baseline", "expected_performance",
     "observed_performance", "coordination_effect", "impact_classification",
     "interaction_pattern", "performance_change_percent", "timestamp"}

CoordinationResponded ==
    http.pc = "responded" /\ http.endpoint = "/measure/coordination"

\* The answer the coordination endpoint owes to an accepted body.
AcceptedAnswer ==
    IF http.body.agent_a_baseline.n * http.body.agent_b_baseline.n # 0
    THEN http.status = 200 /\ DOMAIN http.content = CoordinationFields
    ELSE http.status = 400

\* C12 as stated: a body of exactly the four fields agent_a_baseline,
\* agent_b_baseline, coordinated_performance and interaction_pattern is
\* answered 200 with a CoordinationResult, or 400 when the product is zero.
C12_FourFieldsAccepted ==
    (CoordinationResponded /\ DOMAIN http.body = FourFields) => AcceptedAnswer

\* C12, amended: a body that also carries agent_a_id and agent_b_id is
\* answered 200 with a CoordinationResult, or 400 when the product of the
\* baselines is zero; a body of exactly the four fields is answered 422 and
\* no result.
C12_SixFieldsAccepted ==
    CoordinationResponded =>
        IF DOMAIN http.body = FourFields
        THEN /\ http.status = 422
             /\ DOMAIN http.content = {"detail"}
             /\ http.content.detail = {"agent_a_id", "agent_b_id"}
        ELSE AcceptedAnswer

C12_Witness ==
    /\ CoordinationResponded
    /\ DOMAIN http.body = FourFields
    /\ http.body.agent_a_baseline.n * http.body.agent_b_baseline.n # 0
    /\ http.status = 422


\* C13: every response of status 400 has the body {error: message} and
\* carries none of the result fields.
C13_ErrorBody ==
    (http.pc = "responded" /\ http.status = 400) =>
        /\ DOMAIN http.content = {"error"}
        /\ http.content.error \in {InsufficientDataMsg, ZeroBaselineMsg,
                                   EmbeddingErrorMsg, ZeroDivisionMsg}


\* The distances of the response list of call c, recomputed from its arguments.
DistancesOf(c) ==
    PairwiseDistances(Encode(DefaultModel, calls[c].args.responses))

AllEqualPositive(ds) ==
    /\ ds # << >>
    /\ \A p \in 1..Len(ds) : ds[p] = ds[1] /\ Gt(ds[p], Zero)

\* C14: whenever the pairwise distances of the response list are all equal
\* and positive, the call returns std_distance 0, a positive mean_distance and
\* consistency_score exactly 1.0; and every successful call with std_distance
\* 0 and mean_distance > 0 returns consistency_score exactly 1.0.
C14_EqualDistances ==
    \A c \in Callers :
        (IsConsistency(c) /\ Succeeded(c)) =>
            LET r == calls[c].result
            IN  /\ AllEqualPositive(DistancesOf(c)) =>
                       /\ r.std_semantic_distance = Zero
                       /\ Gt(r.mean_semantic_distance, Zero)
                /\ (r.std_semantic_distance = Zero
                    /\ Gt(r.mean_semantic_distance, Zero)) =>
                       r.consistency_score = One

C14_Witness ==
    \E c \in Callers :
        /\ IsConsistency(c) /\ Succeeded(c)
        /\ AllEqualPositive(DistancesOf(c))
        /\ calls[c].divided
        /\ calls[c].result.consistency_score = One

\* The place of the pair (i, j), i < j, among the pairs of n responses.
PairIndex(i, j, n) == (i - 1) * n - (i * (i - 1)) \div 2 + (j - i)

\* C15: for n >= 2 responses the call computes exactly n*(n-1)/2 distances,
\* one for each pair i < j and none for a response with itself, and the mean
\* and the standard deviation it returns are taken over exactly these.
C15_UnorderedPairs ==
    [][\A c \in Callers :
          (calls[c].pc = "measured" /\ calls'[c].pc = "returned") =>
              LET n == Len(calls[c].args.responses)
                  e == frame[FrameOf(c)].embeddings
                  d == frame[FrameOf(c)].distances
                  r == calls'[c].result
              IN  /\ n >= 2
                  /\ Len(d) * 2 = n * (n - 1)
                  /\ \A i \in 1..n : \A j \in (i + 1)..n :
                         /\ PairIndex(i, j, n) \in 1..Len(d)
                         /\ d[PairIndex(i, j, n)] = Cosine(e[i], e[j])
                  /\ \A i \in 1..n : \A j \in (i + 1)..n :
                     \A k \in 1..n : \A l \in (k + 1)..n :
                         PairIndex(i, j, n) = PairIndex(k, l, n) =>
                             (i = k /\ j = l)
                  /\ r.mean_semantic_distance = Mean(d)
                  /\ r.std_semantic_distance = Std(d)
                  /\ r.num_responses = n]_vars

C15_Witness ==
    \E c \in Callers :
        /\ IsConsistency(c) /\ Succeeded(c)
        /\ Len(calls[c].args.responses) = 4
        /\ Len(DistancesOf(c)) = 6
        /\ calls[c].result.num_responses = 4

\* C16: the distance the call uses is symmetric: the distance it computed for
\* each pair of responses equals the distance of the same two embeddings
\* taken in the other order.
C16_Symmetric ==
    \A c \in Callers :
        calls[c].pc = "measured" =>
            LET n == Len(calls[c].args.responses)
                e == frame[FrameOf(c)].embeddings
                d == frame[FrameOf(c)].distances
            IN  \A i \in 1..n : \A j \in (i + 1)..n :
                    /\ d[PairIndex(i, j, n)] = Cosine(e[j], e[i])
                    /\ Cosine(e[i], e[j]) = Cosine(e[j], e[i])

C16_Witness ==
    \E c \in Callers :
        /\ calls[c].pc = "measured"
        /\ Len(frame[FrameOf(c)].distances) = 3
        /\ \E p, q \in 1..3 :
               frame[FrameOf(c)].distances[p] # frame[FrameOf(c)].distances[q]
        /\ \E i, j \in 1..3 :
               Dot(frame[FrameOf(c)].embeddings[i], frame[FrameOf(c)].embeddings[i])
               # Dot(frame[FrameOf(c)].embeddings[j], frame[FrameOf(c)].embeddings[j])


InUnit(x) == x.k = "fin" /\ 0 <= x.n /\ x.n <= x.d
InZeroTwo(x) == x.k = "fin" /\ 0 <= x.n /\ x.n <= 2 * x.d

\* C17 as stated: every pairwise distance of a call lies in [0, 1], for
\* vectors with negative components too, and so does mean_semantic_distance.
C17_DistanceInUnitInterval ==
    \A c \in Callers :
        /\ calls[c].pc = "measured" =>
               \A p \in 1..Len(frame[FrameOf(c)].distances) :
                   InUnit(frame[FrameOf(c)].distances[p])
        /\ (IsConsistency(c) /\ Succeeded(c)) =>
               InUnit(calls[c].result.mean_semantic_distance)

\* C17, amended: every pairwise distance of a call lies in [0, 2], and so
\* does mean_semantic_distance; a distance is at most 1 exactly when the dot
\* product of the two embeddings is not negative.
C17_DistanceInZeroTwo ==
    \A c \in Callers :
        /\ calls[c].pc = "measured" =>
               LET n == Len(calls[c].args.responses)
                   e == frame[FrameOf(c)].embeddings
                   d == frame[FrameOf(c)].distances
               IN  \A i \in 1..n : \A j \in (i + 1)..n :
                       /\ InZeroTwo(d[PairIndex(i, j, n)])
                       /\ InUnit(d[PairIndex(i, j, n)]) <=> Dot(e[i], e[j]) >= 0
        /\ (IsConsistency(c) /\ Succeeded(c)) =>
               InZeroTwo(calls[c].result.mean_semantic_distance)

C17_Witness ==
    \E c \in Callers :
        /\ calls[c].pc = "measured"
        /\ \E p \in 1..Len(frame[FrameOf(c)].distances) :
               Gt(frame[FrameOf(c)].distances[p], One)

\* The product of the two baselines of call c.
BaselineProduct(c) ==
    Fin(calls[c].args.agent_a_baseline.n * calls[c].args.agent_b_baseline.n,
        calls[c].args.agent_a_baseline.d * calls[c].args.agent_b_baseline.d)

\* C18: calculate_coordination_effect takes any label, the empty one too, and
\* returns it unchanged; whether the call fails, gamma, the classification
\* and the percent change are determined by the three numbers alone.
C18_OpaquePattern ==
    \A c \in Callers :
        (IsCoordination(c) /\ Returned(c)) =>
            LET r == calls[c].result
                gamma == Quot(calls[c].args.coordinated_performance,
                              BaselineProduct(c))
            IN  /\ ("error" \in DOMAIN r) <=> IsZero(BaselineProduct(c))
                /\ "error" \notin DOMAIN r =>
                       /\ r.interaction_pattern = calls[c].args.interaction_pattern
                       /\ r.coordination_effect = gamma
                       /\ r.impact_classification = Classify(gamma)
                       /\ r.performance_change_percent =
                              Mul(Sub(gamma, One), Fin(100, 1))

C18_Witness ==
    \E c \in Callers :
        /\ IsCoordination(c) /\ Succeeded(c)
        /\ calls[c].args.interaction_pattern = ""
        /\ calls[c].result.interaction_pattern = ""

\* C19: in every successful call performance_change_percent is
\* (gamma - 1) * 100; baselines 0.85 and 0.80 with observed 0.88 give
\* expected 0.68, gamma 22/17 (about 1.294), highly_beneficial and a percent
\* change of 500/17 (about +29.4).
C19_PercentChange ==
    \A c \in Callers :
        (IsCoordination(c) /\ Succeeded(c)) =>
            LET r == calls[c].result
            IN  /\ r.performance_change_percent =
                       Mul(Sub(r.coordination_effect, One), Fin(100, 1))
                /\ (/\ calls[c].args.agent_a_baseline = Fin(85, 100)
                    /\ calls[c].args.agent_b_baseline = Fin(80, 100)
                    /\ calls[c].args.coordinated_performance = Fin(88, 100)) =>
                       /\ r.expected_performance = Fin(68, 100)
                       /\ r.coordination_effect = Fin(22, 17)
                       /\ Gt(r.coordination_effect, Fin(1294, 1000))
                       /\ Gt(Fin(1295, 1000), r.coordination_effect)
                       /\ r.impact_classification = "highly_beneficial"
                       /\ Gt(r.performance_change_percent, Fin(294, 10))
                       /\ Gt(Fin(295, 10), r.performance_change_percent)

C19_Witness ==
    \E c \in Callers :
        /\ IsCoordination(c) /\ Succeeded(c)
        /\ calls[c].args.agent_a_baseline = Fin(85, 100)
        /\ calls[c].args.agent_b_baseline = Fin(80, 100)
        /\ calls[c].args.coordinated_performance = Fin(88, 100)
        /\ calls[c].result.performance_change_percent = Fin(500, 17)

Degrading == {"degraded", "severely_degraded"}
Benefiting == {"beneficial", "highly_beneficial"}

\* C20 as stated: a classification of degraded or severely_degraded comes
\* with gamma < 1 and a negative percent change, one of beneficial or
\* highly_beneficial with gamma > 1 and a positive percent change.
C20_StrictDirection ==
    \A c \in Callers :
        (IsCoordination(c) /\ Succeeded(c)) =>
            LET r == calls[c].result
            IN  /\ r.impact_classification \in Degrading =>
                       /\ Gt(One, r.coordination_effect)
                       /\ Gt(Zero, r.performance_change_percent)
                /\ r.impact_classification \in Benefiting =>
                       /\ Gt(r.coordination_effect, One)
                       /\ Gt(r.performance_change_percent, Zero)

\* C20, amended: a classification of degraded or severely_degraded comes with
\* gamma <= 1 and a percent change <= 0, and gamma exactly 1 (percent change
\* 0) is classified degraded; beneficial or highly_beneficial comes with
\* gamma > 1 and a positive percent change.
C20_Direction ==
    \A c \in Callers :
        (IsCoordination(c) /\ Succeeded(c)) =>
            LET r == calls[c].result
            IN  /\ r.impact_classification \in Degrading \cup Benefiting
                /\ r.impact_classification \in Degrading =>
                       /\ Le(r.coordination_effect, One)
                       /\ Le(r.performance_change_percent, Zero)
                /\ r.coordination_effect = One =>
                       /\ r.impact_classification = "degraded"
                       /\ r.performance_change_percent = Zero
                /\ r.impact_classification \in Benefiting =>
                       /\ Gt(r.coordination_effect, One)
                       /\ Gt(r.performance_change_percent, Zero)

C20_Witness ==
    \E c \in Callers :
        /\ IsCoordination(c) /\ Succeeded(c)
        /\ calls[c].result.coordination_effect = One
        /\ calls[c].result.impact_classification = "degraded"


\* C21: every response set the AutoGen and Swarm wrappers submit holds only
\* responses of the agent named in agent_id that answer the prompt sent with
\* the request.
C21_OneAgentOnePrompt ==
    /\ \A i \in 1..Len(agent.sent) :
           /\ agent.sent[i].body.agent_id = agent.name
           /\ \A j \in 1..Len(agent.sent[i].prompts) :
                  agent.sent[i].prompts[j] = agent.sent[i].body.prompt
    /\ (swarm.last # NoCall /\ swarm.last.request # NoCall) =>
           \A j \in 1..Len(swarm.last.producers) :
               swarm.last.producers[j] = swarm.last.request.agent_id

\* The three most recent entries of a history of at least three.
LastThree(history) == SubSeq(history, Len(history) - 2, Len(history))

\* What every request of a generate_reply call carries.
RequestCarriesLastThree ==
    Len(agent'.sent) > Len(agent.sent) =>
        LET q == agent'.sent[Len(agent'.sent)]
        IN  /\ Len(agent'.sent) = Len(agent.sent) + 1
            /\ q.call = agent'.calls
            /\ Len(q.body.responses) = 3
            /\ q.body.responses = LastThree(agent'.response_history)
            /\ q.body.agent_id = agent.name

\* C22 as stated: a generate_reply call requests a measurement exactly when
\* at least 3 responses have been recorded by then, with the 3 most recent
\* responses in order, and never with fewer than 2.
C22_RequestedWhenThree ==
    [][agent'.calls = agent.calls + 1 =>
          /\ Len(agent'.sent) > Len(agent.sent)
                 <=> Len(agent'.response_history) >= 3
          /\ RequestCarriesLastThree]_vars

\* C22, amended: a generate_reply call requests a measurement exactly when it
\* records its reply and at least 3 responses are recorded by then; a call
\* that records nothing requests nothing.  Each request carries the 3 most
\* recently recorded responses in order, never fewer than 2.
C22_RequestedWhenRecorded ==
    [][agent'.calls = agent.calls + 1 =>
          /\ Len(agent'.sent) > Len(agent.sent)
                 <=> /\ Len(agent'.response_history)
                            = Len(agent.response_history) + 1
                     /\ Len(agent'.response_history) >= 3
          /\ Len(agent'.response_history) \in
                 {Len(agent.response_history), Len(agent.response_history) + 1}
          /\ (agent.variant = "integrations" \/ IsStr(agent'.last.reply)) =>
                 agent'.response_history =
                     Append(agent.response_history, agent'.last.reply)
          /\ RequestCarriesLastThree]_vars

C22_Witness ==
    /\ agent.variant = "examples"
    /\ agent.calls = 4
    /\ Len(agent.response_history) = 3
    /\ agent.last.reply = None
    /\ Len(agent.sent) = 1
    /\ agent.sent[1].call = 3
    /\ agent.sent[1].body.responses = << "T1", "T2", "T1" >>

\* C23: generate_reply of examples/autogen_integration.py returns exactly the
\* reply of the underlying agent and raises nothing, whether the measurement
\* succeeds, the server answers an error or the server is unreachable.
C23_DropIn ==
    (agent.variant = "examples" /\ agent.last # NoCall) =>
        /\ ~agent.last.raised
        /\ agent.last.returned = [value |-> agent.last.reply]
        /\ agent.last.measured =>
               \/ "consistency_score" \in DOMAIN agent.last.consistency
               \/ "detail" \in DOMAIN agent.last.consistency
               \/ "error" \in DOMAIN agent.last.consistency

C23_Witness ==
    /\ agent.variant = "examples"
    /\ agent.last # NoCall
    /\ agent.last.measured
    /\ agent.last.consistency = [error |-> ConnectionErrorMsg]
    /\ agent.last.returned = [value |-> "T2"]

\* C24: a run adds one entry to handoff_measurements, at its end, when the
\* run ended with another agent than it started with and the coordination
\* measurement returned a coordination_effect; every other run, and
\* set_agent_baseline, leave handoff_measurements as it was.
C24_HandoffMeasurements ==
    [][IF swarm'.runs = swarm.runs + 1
       THEN LET l == swarm'.last
            IN  IF /\ l.agent # l.initial_agent
                   /\ "coordination_effect" \in DOMAIN l.coordination
                THEN /\ swarm'.handoff_measurements =
                            Append(swarm.handoff_measurements, l.coordination)
                     /\ l.coordination.interaction_pattern =
                            l.initial_agent \o "_to_" \o l.agent \o "_handoff"
                ELSE swarm'.handoff_measurements = swarm.handoff_measurements
       ELSE swarm'.handoff_measurements = swarm.handoff_measurements]_vars

C24_Witness ==
    /\ swarm.runs = 3
    /\ Len(swarm.handoff_measurements) = 1
    /\ swarm.last.agent # swarm.last.initial_agent
    /\ "detail" \in DOMAIN swarm.last.coordination


Answered(outcome, statuses) ==
    outcome.kind = "response" /\ outcome.status \in statuses

\* C25: a generate call sends at most max_retries requests; it returns the
\* text at the first attempt answered with status 200 and sends no request
\* after a 200; it raises only once the attempts are exhausted; it never
\* returns without a 200.
C25_ReturnsAtFirst200 ==
    hf.pc # "idle" =>
        /\ Len(hf.requests) <= MaxRetries
        /\ hf.pc = "sending" => hf.attempt < MaxRetries
        /\ \A i \in 1..Len(hf.requests) :
               Answered(hf.requests[i], {200}) =>
                   i = Len(hf.requests) /\ hf.pc = "returned"
        /\ hf.pc = "returned" =>
               /\ hf.requests # << >>
               /\ Answered(hf.requests[Len(hf.requests)], {200})
        /\ hf.pc = "raised" => Len(hf.requests) = MaxRetries

\* C26: request_history holds at most 100 entries, and they are the most
\* recent min(total, 100) logged requests in the order they were logged.
C26_RecentHistory ==
    LET h == hf.request_history
    IN  /\ Len(h) <= HistoryLimit
        /\ Len(h) = IF hf.logged < HistoryLimit THEN hf.logged ELSE HistoryLimit
        /\ \A i \in 1..Len(h) : h[i].timestamp = hf.logged - Len(h) + i

C26_Witness ==
    /\ hf.logged = HistoryLimit + 2
    /\ Len(hf.request_history) = HistoryLimit
    /\ hf.request_history[1].timestamp = 3
    /\ hf.request_history[HistoryLimit].timestamp = HistoryLimit + 2

\* C27: a response with status 400 or 404 ends the generate call with an
\* exception after that attempt: no sleep follows it and no further request
\* is sent in the call.
C27_NoRetryOnClientError ==
    hf.pc # "idle" =>
        \A i \in 1..Len(hf.requests) :
            Answered(hf.requests[i], {400, 404}) =>
                /\ i = Len(hf.requests)
                /\ hf.pc = "raised"
                /\ Len(hf.sleeps) < i


\* C28: a successful call with exactly 2 responses returns consistency_score
\* 1.0 and std_distance 0 whatever the two responses are, alike or not.
C28_TwoResponses ==
    \A c \in Callers :
        (IsConsistency(c) /\ Succeeded(c)
         /\ Len(calls[c].args.responses) = 2) =>
            /\ calls[c].result.consistency_score = One
            /\ calls[c].result.std_semantic_distance = Zero
            /\ calls[c].result.num_responses = 2

C28_Witness ==
    \E c \in Callers :
        /\ IsConsistency(c) /\ Succeeded(c)
        /\ calls[c].args.responses = << "T1", "T3" >>
        /\ calls[c].result.mean_semantic_distance = Fin(9, 5)
        /\ calls[c].result.consistency_score = One

\* The exchanges of two neighbouring places of a list of n; they generate
\* every rearrangement of it.
Exchanges(n) ==
    {[k \in 1..n |-> IF k = i THEN i + 1 ELSE IF k = i + 1 THEN i ELSE k] :
         i \in 1..(n - 1)}

Permuted(responses, f) == [i \in 1..Len(responses) |-> responses[f[i]]]

\* The measured fields of a successful result.
Measured(r) ==
    << r.consistency_score, r.mean_semantic_distance, r.std_semantic_distance,
       r.num_responses >>

\* C29: the consistency_score, mean_semantic_distance, std_semantic_distance
\* and num_responses a call returned are those the engine computes for its
\* responses with any two neighbours exchanged; every list being a possible
\* input, the same holds for every rearrangement of the responses.
C29_OrderInvariant ==
    \A c \in Callers :
        (IsConsistency(c) /\ Succeeded(c)) =>
            \A f \in Exchanges(Len(calls[c].args.responses)) :
                LET rs == Permuted(calls[c].args.responses, f)
                IN  Measured(calls[c].result) =
                    Measured(ConsistencyResult(
                        [calls[c].args EXCEPT !.responses = rs],
                        PairwiseDistances(Encode(behavioral_analyzer.model, rs)),
                        "12:00:00"))

C29_Witness ==
    \E c \in Callers :
        /\ IsConsistency(c) /\ Succeeded(c)
        /\ calls[c].args.responses = << "T1", "T2", "T3" >>
        /\ Gt(calls[c].result.std_semantic_distance, Zero)


\* C30: every provider that was constructed holds a key, and its
\* get_provider_info reports api_key_configured true; construction fails
\* exactly when neither the argument nor the environment gives a key.
C30_KeyConfigured ==
    /\ provider.pc = "constructed" =>
           /\ Truthy(provider.api_key)
           /\ provider.info # NoCall => provider.info.api_key_configured
    /\ provider.pc = "raised" <=>
           /\ provider.pc # "none"
           /\ provider.given.api_key \in {None, ""}
           /\ provider.given.environment \in {None, ""}

C30_Witness ==
    /\ provider.pc = "constructed"
    /\ provider.constructor = "create_deepseek_provider"
    /\ provider.given.api_key = ""
    /\ provider.given.environment = "env_key"
    /\ provider.info # NoCall
    /\ provider.info.api_key_configured

====
